---- MODULE Spec2Model ----
(***************************************************************************)
(* Option (Some / None) of suddenlyGiovanni/std and the typeclass law      *)
(* harnesses that exercise it.                                             *)
(*                                                                         *)
(* Options are objects with reference identity, so the model keeps a heap  *)
(* of allocated Option objects; a reference is an index into the heap.     *)
(* The only process-wide state of the library is None.#instance, the       *)
(* lazily created None singleton.                                          *)
(***************************************************************************)
EXTENDS Integers, Sequences, FiniteSets, TLC

(***************************************************************************)
(* Bounds of the model.                                                    *)
(***************************************************************************)
\* an operation is started only while fewer than MaxHeap Options exist
MaxHeap == 3
\* numbers handed to the constructors are 0..MaxNum
MaxNum == 1
\* a collection handed to productAll / productMany has at most MaxColl members
MaxColl == 2
\* a chain of operations on the result of None() has at most MaxChain links
MaxChain == 3

(***************************************************************************)
(* JavaScript values: a payload is a number, a string (the decimal form of *)
(* a number), null, undefined, an array of values, or a reference to an    *)
(* Option object; besides these there are the booleans, the empty string,  *)
(* the bigints, object literals and the text JSON.stringify writes.  One   *)
(* record shape keeps every pair of values comparable.                     *)
(***************************************************************************)
Num(n) == [k |-> "num", n |-> n, items |-> <<>>]
Str(n) == [k |-> "str", n |-> n, items |-> <<>>]
Null == [k |-> "null", n |-> 0, items |-> <<>>]
Undefined == [k |-> "undefined", n |-> 0, items |-> <<>>]
Arr(items) == [k |-> "array", n |-> 0, items |-> items]
Ref(r) == [k |-> "option", n |-> r, items |-> <<>>]

\* true and false
True == [k |-> "bool", n |-> 1, items |-> <<>>]
False == [k |-> "bool", n |-> 0, items |-> <<>>]
Boolean(b) == IF b THEN True ELSE False
\* '', the string of no characters
EmptyString == [k |-> "emptyString", n |-> 0, items |-> <<>>]
\* the bigint n, as in 0n
BigInt(n) == [k |-> "bigint", n |-> n, items |-> <<>>]
\* a string constant of the source, as in 'Option': each is a kind of its own
Lit(s) == [k |-> s, n |-> 0, items |-> <<>>]
\* an object literal: its members, in order, each a pair of key and value
Member(key, value) == Arr(<<Lit(key), value>>)
Obj(members) == [k |-> "object", n |-> 0, items |-> members]
\* a string of JSON, held as the value it is the text of
Text(json) == [k |-> "text", n |-> 0, items |-> <<json>>]

\* 0, '', false and 0n: the values that are falsy without being null or undefined
FalsyValues == {Num(0), EmptyString, False, BigInt(0)}

\* the values a caller passes to the constructors
InputValues == {Num(n) : n \in 0..MaxNum} \cup {Null, Undefined}

(***************************************************************************)
(* The machine an expression is evaluated on: the heap of Option objects   *)
(* (the fields of each) and the class each was constructed by,             *)
(* the None.#instance cache (0 is undefined), the log of the calls made to *)
(* caller-supplied functions, the number of members pulled from an         *)
(* iterable, and the message of the error thrown ("" while none is).       *)
(* Every operator below takes a machine and returns the machine after the  *)
(* call together with the returned value.  A throw abandons the call: the  *)
(* value returned with a machine that has thrown is not a result.          *)
(***************************************************************************)
Result(m, ret) == [m |-> m, ret |-> ret]

\* `throw new Error(message)`: the first error thrown is the one that escapes
Throw(m, message) == [m EXCEPT !.threw = IF @ = "" THEN message ELSE @]

NotInstantiable ==
    "Option is not meant to be instantiated directly; instantiate instead Option's derived classes (Some, None)"

\* the test is the wrong way round: only the derived classes are rejected
Option_constructor_inverted(m, newTarget) ==
    IF newTarget # "Option" THEN Throw(m, NotInstantiable) ELSE m

\* the constructor of the abstract class, reached directly or through super()
Option_constructor(m, newTarget) ==
    IF newTarget = "Option" THEN Throw(m, NotInstantiable) ELSE m

\* `new None()`: the object carries its tag and no payload
NewNone(m) ==
    LET m0 == Option_constructor(m, "None") IN
    Result([m0 EXCEPT !.heap = Append(@, [tag |-> "None", value |-> Undefined]),
                      !.classes = Append(@, "None")],
           Len(m.heap) + 1)

\* `new Some(value)`: the object stores exactly the value it is given
NewSome(m, value) ==
    LET m0 == Option_constructor(m, "Some") IN
    Result([m0 EXCEPT !.heap = Append(@, [tag |-> "Some", value |-> value]),
                      !.classes = Append(@, "Some")],
           Len(m.heap) + 1)

\* a cache that is never consulted: every call constructs another None
getSingletonInstance_fresh(m) ==
    LET r == NewNone(m) IN Result([r.m EXCEPT !.instance = r.ret], r.ret)

\* a None is constructed when the cache is empty, but the cache is not filled
getSingletonInstance_uncached(m) ==
    IF m.instance = 0
    THEN NewNone(m)
    ELSE Result(m, m.instance)

getSingletonInstance(m) ==
    IF m.instance = 0
    THEN LET r == NewNone(m) IN Result([r.m EXCEPT !.instance = r.ret], r.ret)
    ELSE Result(m, m.instance)

None(m) == getSingletonInstance(m)

\* null and undefined are not wrapped
of_nullable(m, a) ==
    IF a \in {Null, Undefined} THEN getSingletonInstance(m) ELSE NewSome(m, a)

of(m, a) == NewSome(m, a)

Some(m, value) == of(m, value)

\* the test is for a falsy value, not for null or undefined
fromNullable_falsy(m, nullableValue) ==
    IF nullableValue \in {Undefined, Null} \cup FalsyValues
    THEN getSingletonInstance(m)
    ELSE Some(m, nullableValue)

fromNullable(m, nullableValue) ==
    IF nullableValue = Undefined \/ nullableValue = Null
    THEN getSingletonInstance(m)
    ELSE Some(m, nullableValue)

\* an Option is taken for empty when it holds nothing but undefined
isNone_byPayload(m, self) == m.heap[self].value = Undefined

\* self instanceof None
isNone(m, self) == m.classes[self] = "None"

\* self instanceof Some
isSome(m, self) == m.classes[self] = "Some"

\* Some#get returns the stored value; None#get throws and is never reached
\* by the operations below, which test the variant first
get(m, self) == m.heap[self].value

(***************************************************************************)
(* Caller-supplied functions.  A function is named by a tuple: <<name>>    *)
(* for the functions the tests and the documentation pass in, and a tuple  *)
(* with the captured functions for the closures the library and the law    *)
(* harnesses build.  Each call of a named function is logged with its      *)
(* argument and the value it returned.                                     *)
(***************************************************************************)
\* value-returning functions handed to map / imap
MapFns == {"identity", "double", "toString", "toNumber", "constNull", "orZero"}
\* Option-returning functions handed to flatMap
FlatMapFns == {"of", "constNone", "positive", "someString"}

\* the parameter type of a function, as the type checker sees it
DomOf(name) ==
    CASE name \in {"double", "positive", "someString"} -> "num"
      [] name = "toNumber" -> "str"
      [] OTHER -> "any"

\* the type of the value (for an Option-returning function, of the payload)
\* a function produces from an argument of type `kind`
CodOf(name, kind) ==
    CASE name \in {"double", "toNumber", "positive"} -> "num"
      [] name \in {"toString", "someString"} -> "str"
      [] name = "constNull" -> "null"
      [] name = "constNone" -> "never"
      [] name = "orZero" /\ kind \in {"null", "undefined"} -> "num"
      [] OTHER -> kind

\* f: (a: A) => B type-checks against a container of `kind`
Accepts(name, kind) == DomOf(name) = "any" \/ kind = "never" \/ DomOf(name) = kind

\* the payload type of an Option; None is Option<never>
KindOf(h, r) == IF h[r].tag = "None" THEN "never" ELSE h[r].value.k

\* <A>(a: A): A => a
identity(a) == a

\* (n) => n * 2
double(a) == Num(a.n * 2)

\* (a: number): string => String(a)
toString(a) == Str(a.n)

\* (b: string): number => Number(b)
toNumber(a) == Num(a.n)

\* () => null
constNull(a) == Null

\* (a) => a ?? 0
orZero(a) == IF a \in {Null, Undefined} THEN Num(0) ELSE a

Log(m, name, a, ret) == [m EXCEPT !.calls = Append(@, <<name, a, ret>>)]

Logged(name, a, r) == Result(Log(r.m, name, a, r.ret), r.ret)

RECURSIVE Apply(_, _, _)
RECURSIVE flatMap(_, _, _)

\* f(self.get()) is wrapped once more before it is returned
flatMap_wrapping(m, f, self) ==
    IF isNone(m, self)
    THEN LET r == None(m) IN Result(r.m, r.ret)
    ELSE LET r == Apply(m, f, get(m, self)) IN of(r.m, r.ret)

\* an empty Option is answered with a None of its own, not with the shared one
flatMap_newNone(m, f, self) ==
    IF isNone(m, self)
    THEN NewNone(m)
    ELSE LET r == Apply(m, f, get(m, self)) IN Result(r.m, r.ret.n)

flatMap(m, f, self) ==
    IF isNone(m, self)
    THEN None(m)
    ELSE LET r == Apply(m, f, get(m, self)) IN Result(r.m, r.ret.n)

\* the value a function returns when called with a, and the machine after
Apply(m, f, a) ==
    CASE f[1] = "identity" -> Logged("identity", a, Result(m, identity(a)))
      [] f[1] = "double" -> Logged("double", a, Result(m, double(a)))
      [] f[1] = "toString" -> Logged("toString", a, Result(m, toString(a)))
      [] f[1] = "toNumber" -> Logged("toNumber", a, Result(m, toNumber(a)))
      [] f[1] = "constNull" -> Logged("constNull", a, Result(m, constNull(a)))
      [] f[1] = "orZero" -> Logged("orZero", a, Result(m, orZero(a)))
      [] f[1] = "of" ->
            LET r == of(m, a) IN Logged("of", a, Result(r.m, Ref(r.ret)))
      [] f[1] = "constNone" ->
            LET r == None(m) IN Logged("constNone", a, Result(r.m, Ref(r.ret)))
      [] f[1] = "positive" ->
            LET r == IF a.n > 0 THEN Some(m, Num(a.n * 2)) ELSE None(m)
            IN Logged("positive", a, Result(r.m, Ref(r.ret)))
      [] f[1] = "someString" ->
            LET r == Some(m, Str(a.n)) IN Logged("someString", a, Result(r.m, Ref(r.ret)))
      \* (a) => g(f(a))
      [] f[1] = "compose" ->
            LET r == Apply(m, f[2], a) IN Apply(r.m, f[3], r.ret)
      \* (a: A) => Option.of(f(a))
      [] f[1] = "ofAfter" ->
            LET r == Apply(m, f[2], a)
                s == of(r.m, r.ret)
            IN Result(s.m, Ref(s.ret))
      \* (a) => pipe(f(a), this.#F.flatMap(g))
      [] f[1] = "flatMapAfter" ->
            LET r == Apply(m, f[2], a)
                s == flatMap(r.m, f[3], r.ret.n)
            IN Result(s.m, Ref(s.ret))
      \* ([a, [b, c]]) => [a, b, c]
      [] f[1] = "flattenRight" ->
            Result(m, Arr(<<a.items[1], a.items[2].items[1], a.items[2].items[2]>>))
      \* ([[a, b], c]) => [a, b, c]
      [] f[1] = "flattenLeft" ->
            Result(m, Arr(<<a.items[1].items[1], a.items[1].items[2], a.items[2]>>))
      \* ([a, b, c]) => [a, [b, c]]
      [] f[1] = "nestRight" ->
            Result(m, Arr(<<a.items[1], Arr(<<a.items[2], a.items[3]>>)>>))
      \* ([a, b, c]) => [[a, b], c]
      [] f[1] = "nestLeft" ->
            Result(m, Arr(<<Arr(<<a.items[1], a.items[2]>>), a.items[3]>>))

\* f is applied twice to the payload
map_twice(m, f, self) == flatMap(m, <<"ofAfter", <<"compose", f, f>>>>, self)

\* the result of f goes through fromNullable instead of of
map_nullable(m, f, self) ==
    IF isNone(m, self)
    THEN None(m)
    ELSE LET r == Apply(m, f, get(m, self)) IN fromNullable(r.m, r.ret)

\* the value f returns is stored in self, which is returned
map_inPlace(m, f, self) ==
    IF isNone(m, self)
    THEN None(m)
    ELSE LET r == Apply(m, f, get(m, self)) IN
         Result([r.m EXCEPT !.heap[self].value = r.ret], self)

map(m, f, self) == flatMap(m, <<"ofAfter", f>>, self)

\* neither function is applied
imap_dropped(m, to, from, self) == Result(m, self)

\* the payload is taken there and back again
imap_thereAndBack(m, to, from, self) == map(m, <<"compose", to, from>>, self)

\* Covariant.imap(Option.map): the backward function is dropped
imap(m, to, from, self) == map(m, to, self)

\* self.flatMap(f)
Option_flatMap(m, self, f) == flatMap(m, f, self)

RECURSIVE flatten_deep(_, _)
\* every level of nesting is collapsed
flatten_deep(m, ffa) ==
    IF isNone(m, ffa)
    THEN None(m)
    ELSE IF get(m, ffa).k = "option"
         THEN flatten_deep(m, get(m, ffa).n)
         ELSE Result(m, ffa)

\* ffa.flatMap(F.identity)
flatten(m, ffa) == Option_flatMap(m, ffa, <<"identity">>)

\* an empty `that` is ignored
product_left(m, self, that) ==
    IF isSome(m, self)
    THEN of(m, Arr(<<get(m, self), get(m, that)>>))
    ELSE None(m)

product(m, self, that) ==
    IF isSome(m, self) /\ isSome(m, that)
    THEN of(m, Arr(<<get(m, self), get(m, that)>>))
    ELSE None(m)

(***************************************************************************)
(* productAll and productMany walk an iterable with for...of: each turn of *)
(* the loop pulls one member, and a return from inside the loop closes the *)
(* iterator, so nothing more is pulled.                                    *)
(***************************************************************************)
\* the iterator hands out its next member
Pull(m) == [m EXCEPT !.pulled = @ + 1]

RECURSIVE productAll_loop(_, _, _, _)
productAll_loop(m, optionCollection, i, out) ==
    IF i > Len(optionCollection)
    THEN of(m, Arr(out))
    ELSE LET m1 == Pull(m)
             option == optionCollection[i]
         IN IF isNone(m1, option)
            THEN None(m1)
            ELSE productAll_loop(m1, optionCollection, i + 1,
                                 Append(out, get(m1, option)))

\* the iterable is copied into an array before the first member is looked at
productAll_copying(m, optionCollection) ==
    LET m1 == [m EXCEPT !.pulled = Len(optionCollection)] IN
    IF \E i \in 1..Len(optionCollection) : isNone(m1, optionCollection[i])
    THEN None(m1)
    ELSE of(m1, Arr([i \in 1..Len(optionCollection) |-> get(m1, optionCollection[i])]))

\* the payloads are collected last first
productAll_reversed(m, optionCollection) ==
    LET n == Len(optionCollection) IN
    IF \E i \in 1..n : isNone(m, optionCollection[i])
    THEN None(m)
    ELSE of(m, Arr([i \in 1..n |-> get(m, optionCollection[n + 1 - i])]))

productAll(m, optionCollection) == productAll_loop(m, optionCollection, 1, <<>>)

RECURSIVE productMany_loop(_, _, _, _)
productMany_loop(m, collection, i, out) ==
    IF i > Len(collection)
    THEN of(m, Arr(out))
    ELSE LET m1 == Pull(m)
             option == collection[i]
         IN IF isNone(m1, option)
            THEN None(m1)
            ELSE productMany_loop(m1, collection, i + 1,
                                  Append(out, get(m1, option)))

\* the payload of self is left out of the result
productMany_withoutSelf(m, self, collection) ==
    IF isNone(m, self)
    THEN None(m)
    ELSE productMany_loop(m, collection, 1, <<>>)

productMany(m, self, collection) ==
    IF isNone(m, self)
    THEN None(m)
    ELSE productMany_loop(m, collection, 1, <<get(m, self)>>)

(***************************************************************************)
(* The eliminators.  They return a plain value, not an Option.  get is     *)
(* abstract in Option: the call goes to the class of the object.           *)
(***************************************************************************)
\* None#get
None_get(m, self) == Result(Throw(m, "None.get"), Undefined)

\* Some#get
Some_get(m, self) == Result(m, m.heap[self].value)

\* self.get(), dispatched on the class of self
Option_get(m, self) ==
    IF m.heap[self].tag = "None" THEN None_get(m, self) ELSE Some_get(m, self)

isEmpty(m, self) == isNone(m, self)

\* functions of no argument handed to getOrElse / fold / match
LazyFns == {"two", "fortyTwo", "null"}

\* functions of two arguments handed to reduce
ReduceFns == {"lengthPlus", "sum", "latest"}

\* the type of the second parameter of a function handed to reduce
DomOf2(name) ==
    CASE name = "lengthPlus" -> "str"
      [] name = "sum" -> "num"
      [] OTHER -> "any"

\* the value a function of no argument returns when called
ApplyLazy(m, f) ==
    CASE f = "two" -> Logged("two", Undefined, Result(m, Num(2)))
      [] f = "fortyTwo" -> Logged("fortyTwo", Undefined, Result(m, Num(42)))
      [] f = "null" -> Logged("null", Undefined, Result(m, Null))

RECURSIVE Digits(_)
\* String(n).length
Digits(n) == IF n < 10 THEN 1 ELSE 1 + Digits(n \div 10)

\* (number: number, string: string): number => string.length + number
lengthPlus(b, a) == Num(Digits(a.n) + b.n)

\* (b, a) => b + a
sum(b, a) == Num(b.n + a.n)

\* (_, a) => a
latest(b, a) == a

\* the value a function of two arguments returns when called with b and a
Apply2(m, f, b, a) ==
    CASE f = "lengthPlus" -> Logged("lengthPlus", Arr(<<b, a>>), Result(m, lengthPlus(b, a)))
      [] f = "sum" -> Logged("sum", Arr(<<b, a>>), Result(m, sum(b, a)))
      [] f = "latest" -> Logged("latest", Arr(<<b, a>>), Result(m, latest(b, a)))

\* f is called with the seed whether or not there is a payload
reduce_always(m, b, f, self) ==
    Apply2(m, f, b, IF isNone(m, self) THEN Str(0) ELSE get(m, self))

reduce(m, b, f, self) ==
    IF isNone(m, self) THEN Result(m, b) ELSE Apply2(m, f, b, get(m, self))

\* the fallback is evaluated before the variant is looked at
getOrElse_eager(m, defaultValue, self) ==
    LET d == ApplyLazy(m, defaultValue) IN
    IF isEmpty(d.m, self) THEN d ELSE Option_get(d.m, self)

getOrElse(m, defaultValue, self) ==
    IF isEmpty(m, self) THEN ApplyLazy(m, defaultValue) ELSE Option_get(m, self)

\* ifEmpty is evaluated before the variant is looked at
fold_eager(m, ifEmpty, f, self) ==
    LET d == ApplyLazy(m, ifEmpty) IN
    IF isEmpty(d.m, self) THEN d ELSE Apply(d.m, <<f>>, get(d.m, self))

fold(m, ifEmpty, f, self) ==
    IF isEmpty(m, self) THEN ApplyLazy(m, ifEmpty) ELSE Apply(m, <<f>>, get(m, self))

match(m, cases, self) == fold(m, cases.onNone, cases.onSome, self)

(***************************************************************************)
(* The fluent surface: the methods of an Option, each of which hands       *)
(* `this` to the static function of the same name.                         *)
(***************************************************************************)
\* self.map(f)
Option_map(m, self, f) == map(m, f, self)

\* self.imap(f, _g)
Option_imap(m, self, f, g) == map(m, f, self)

\* self.flatten()
Option_flatten(m, self) == Option_flatMap(m, self, <<"identity">>)

\* self.fold(ifEmpty, f)
Option_fold(m, self, ifEmpty, f) == fold(m, ifEmpty, f, self)

\* self.match(cases)
Option_match(m, self, cases) == match(m, cases, self)

\* self.reduce(b, f)
Option_reduce(m, self, b, f) == reduce(m, b, f, self)

\* that.product(self): the receiver and the argument change places
Option_product_swapped(m, self, that) == product(m, that, self)

\* self.product(that)
Option_product(m, self, that) == product(m, self, that)

\* self.productMany(collection)
Option_productMany(m, self, collection) == productMany(m, self, collection)

(***************************************************************************)
(* Serialization.  toJSON builds an object literal; toString hands it to   *)
(* JSON.stringify, which throws a TypeError on a bigint, leaves out the    *)
(* members of an object that are undefined, writes null for the undefined  *)
(* items of an array, and calls toJSON on the objects that have one.       *)
(***************************************************************************)
\* the value member is added only when there is something other than undefined to hold
toJSON_definedOnly(m, self) ==
    Result(m, Obj(<<Member("_id", Lit("Option")), Member("_tag", Lit(m.heap[self].tag))>>
                  \o (IF isSome(m, self) /\ get(m, self) # Undefined
                      THEN <<Member("value", get(m, self))>>
                      ELSE <<>>)))

toJSON(m, self) ==
    Result(m, Obj(<<Member("_id", Lit("Option")), Member("_tag", Lit(m.heap[self].tag))>>
                  \o (IF isSome(m, self)
                      THEN <<Member("value", get(m, self))>>
                      ELSE <<>>)))

RECURSIVE HasBigInt(_, _)
\* JSON.stringify meets a bigint somewhere in x
HasBigInt(m, x) ==
    CASE x.k = "bigint" -> TRUE
      [] x.k = "option" -> HasBigInt(m, toJSON(m, x.n).ret)
      [] x.k \in {"array", "object"} ->
            \E i \in 1..Len(x.items) : HasBigInt(m, x.items[i])
      [] OTHER -> FALSE

RECURSIVE SelectDefined(_)
\* the members of an object whose value is not undefined
SelectDefined(members) ==
    IF members = <<>> THEN <<>>
    ELSE IF Head(members).items[2] = Undefined
         THEN SelectDefined(Tail(members))
         ELSE <<Head(members)>> \o SelectDefined(Tail(members))

RECURSIVE Serialized(_, _)
\* the value the text written by JSON.stringify(x) stands for
Serialized(m, x) ==
    CASE x.k = "option" -> Serialized(m, toJSON(m, x.n).ret)
      [] x.k = "object" ->
            LET kept == SelectDefined(x.items) IN
            Obj([i \in 1..Len(kept) |->
                    Member(kept[i].items[1].k, Serialized(m, kept[i].items[2]))])
      [] x.k = "array" ->
            Arr([i \in 1..Len(x.items) |->
                    IF x.items[i] = Undefined THEN Null ELSE Serialized(m, x.items[i])])
      [] OTHER -> x

BigIntError == "Do not know how to serialize a BigInt"

\* JSON.stringify(x, null, 2)
format(m, x) ==
    IF HasBigInt(m, x)
    THEN Result(Throw(m, BigIntError), Undefined)
    ELSE Result(m, Text(Serialized(m, x)))

Option_toString(m, self) ==
    LET j == toJSON(m, self) IN format(j.m, j.ret)

(***************************************************************************)
(* Equality.  Option#equals compares the variants and hands the payloads   *)
(* of two Somes to a strategy; the tests pass the deep structural equality *)
(* of the assertion library, which descends into arrays and Options.       *)
(***************************************************************************)
RECURSIVE equal(_, _, _)

equals(h, self, that) ==
    IF h[self].tag = "Some"
    THEN h[that].tag = "Some" /\ equal(h, h[self].value, h[that].value)
    ELSE h[that].tag = "None"

equal(h, x, y) ==
    /\ x.k = y.k
    /\ CASE x.k = "option" -> equals(h, x.n, y.n)
         [] x.k = "array" ->
                /\ Len(x.items) = Len(y.items)
                /\ \A i \in 1..Len(x.items) : equal(h, x.items[i], y.items[i])
         [] OTHER -> x.n = y.n

\* input instanceof None || input instanceof Some
isOption(input) == input.k = "option"

\* the strategies handed to Option#equals, "undefined" when none is
Strategies == {"undefined", "equal", "always"}

\* Object.is(x, y) for numbers, strings, null, undefined and Options
ObjectIs(x, y) == x.k = y.k /\ x.n = y.n

\* the boolean a strategy returns when called with the two payloads
ApplyStrategy(m, predicateStrategy, x, y) ==
    LET b == CASE predicateStrategy = "Object.is" -> ObjectIs(x, y)
               [] predicateStrategy = "equal" -> equal(m.heap, x, y)
               [] predicateStrategy = "always" -> TRUE
        ret == IF b THEN True ELSE False
    IN Logged(predicateStrategy, Arr(<<x, y>>), Result(m, ret))

\* the parameter default: predicateStrategy = Object.is
DefaultStrategy(predicateStrategy) ==
    IF predicateStrategy = "undefined" THEN "Object.is" ELSE predicateStrategy

\* the variants are not looked at: the payloads alone decide
Option_equals_payloads(m, self, that, predicateStrategy) ==
    IF isOption(that)
    THEN ApplyStrategy(m, DefaultStrategy(predicateStrategy),
                       get(m, self), get(m, that.n))
    ELSE Result(m, False)

\* this.equals(that, predicateStrategy)
Option_equals(m, self, that, predicateStrategy) ==
    IF isSome(m, self)
    THEN IF isOption(that) /\ isSome(m, that.n)
         THEN ApplyStrategy(m, DefaultStrategy(predicateStrategy),
                            get(m, self), get(m, that.n))
         ELSE Result(m, False)
    ELSE Result(m, IF isOption(that) /\ isNone(m, that.n) THEN True ELSE False)

(***************************************************************************)
(* The law harnesses and the law tests.  Each computes the two sides of    *)
(* its equation, left side first, and hands them to the equality strategy. *)
(***************************************************************************)
Sides(m, lhs, rhs) == [m |-> m, lhs |-> lhs, rhs |-> rhs]

\* pipe(fa, F.map(identity)) against fa
CovariantLaws_assertIdentity(m, fa) ==
    LET r == map(m, <<"identity">>, fa) IN Sides(r.m, r.ret, fa)

\* pipe(Fa, F.map(f), F.map(g)) against pipe(Fa, F.map((a) => g(f(a))))
CovariantLaws_assertComposition(m, Fa, f, g) ==
    LET r1 == map(m, f, Fa)
        r2 == map(r1.m, g, r1.ret)
        r3 == map(r2.m, <<"compose", f, g>>, Fa)
    IN Sides(r3.m, r2.ret, r3.ret)

\* Option.of(a).flatMap(f) against f(a)
LeftIdentity(m, a, f) ==
    LET r1 == of(m, a)
        r2 == flatMap(r1.m, f, r1.ret)
        r3 == Apply(r2.m, f, a)
    IN Sides(r3.m, r2.ret, r3.ret.n)

\* Fa.flatMap(Option.of) against Fa
RightIdentity(m, Fa) ==
    LET r == flatMap(m, <<"of">>, Fa) IN Sides(r.m, r.ret, Fa)

\* pipe(fa, F.flatMap(f), F.flatMap(g)) against
\* pipe(fa, F.flatMap((a) => pipe(f(a), F.flatMap(g))))
FlatMapLaws_assertAssociativity(m, fa, f, g) ==
    LET r1 == flatMap(m, f, fa)
        r2 == flatMap(r1.m, g, r1.ret)
        r3 == flatMap(r2.m, <<"flatMapAfter", f, g>>, fa)
    IN Sides(r3.m, r2.ret, r3.ret)

\* F.product(Fa, F.product(Fb, Fc)) and F.product(F.product(Fa, Fb), Fc),
\* each reindexed to [a, b, c] through F.imap
SemiProductLaws_assertAssociativity(m, Fa, Fb, Fc) ==
    LET bc == product(m, Fb, Fc)
        lhs == product(bc.m, Fa, bc.ret)
        ab == product(lhs.m, Fa, Fb)
        rhs == product(ab.m, ab.ret, Fc)
        l == imap(rhs.m, <<"flattenRight">>, <<"nestRight">>, lhs.ret)
        r == imap(l.m, <<"flattenLeft">>, <<"nestLeft">>, rhs.ret)
    IN Sides(r.m, l.ret, r.ret)

(***************************************************************************)
(* The harness objects.  A harness is constructed with a typeclass         *)
(* instance and an equality assertion; a law method computes its two sides *)
(* and calls an assertion with them, which throws when they differ.        *)
(***************************************************************************)
\* assertEquals(actual, expected) of the assertion library
assertEquals(m, actual, expected) ==
    Logged("assertEquals", Arr(<<actual, expected>>),
           Result(IF equal(m.heap, actual, expected)
                  THEN m ELSE Throw(m, "AssertionError"), Undefined))

\* Util.deepStrictEqual: assertEquals(actual, expected)
deepStrictEqual(m, actual, expected) ==
    Logged("deepStrictEqual", Arr(<<actual, expected>>),
           assertEquals(m, actual, expected))

\* Util.optionEqual: assertStrictEquals(actual.equals(expected, equal), true)
optionEqual(m, actual, expected) ==
    LET r == Option_equals(m, actual.n, expected, "equal") IN
    Logged("optionEqual", Arr(<<actual, expected>>),
           Result(IF r.ret = True THEN r.m ELSE Throw(r.m, "AssertionError"),
                  Undefined))

\* the assertions a test can hand to a harness; "undefined" hands none
AssertStrategies == {"undefined", "deepStrictEqual", "optionEqual"}

\* assertEqualStrategy(actual, expected)
CallAssertStrategy(m, assertEqualStrategy, actual, expected) ==
    CASE assertEqualStrategy = "assertEquals" -> assertEquals(m, actual, expected)
      [] assertEqualStrategy = "deepStrictEqual" -> deepStrictEqual(m, actual, expected)
      [] assertEqualStrategy = "optionEqual" -> optionEqual(m, actual, expected)

\* the parameter default: assertEqualStrategy = assertEquals
DefaultAssert(assertEqualStrategy) ==
    IF assertEqualStrategy = "undefined" THEN "assertEquals" ELSE assertEqualStrategy

\* new CovariantLaws(F, assertEqualStrategy)
CovariantLaws_constructor(F, assertEqualStrategy) ==
    [F |-> F, assertEqualStrategy |-> DefaultAssert(assertEqualStrategy)]

\* new FlatMapLaws(F, assertEqualStrategy)
FlatMapLaws_constructor(F, assertEqualStrategy) ==
    [F |-> F, assertEqualStrategy |-> DefaultAssert(assertEqualStrategy)]

\* new SemiProductLaws(F, assertEqualStrategy)
SemiProductLaws_constructor(F, assertEqualStrategy) ==
    [F |-> F, assertEqualStrategy |-> DefaultAssert(assertEqualStrategy)]

\* new SemigroupLaws(F, _assertEquals)
SemigroupLaws_constructor(F, _assertEquals) ==
    [F |-> F, assertEquals |-> DefaultAssert(_assertEquals)]

\* new InvariantLaws(F): the constructor declares the one parameter F, and
\* an argument after it is not read
InvariantLaws_constructor(F, assertEqualStrategy) == [F |-> F]

\* this.#assertEqualStrategy(lhs, rhs), the last statement of a law method
\* of CovariantLaws, FlatMapLaws and SemiProductLaws
Asserted(this, sides) ==
    CallAssertStrategy(sides.m, this.assertEqualStrategy,
                       Ref(sides.lhs), Ref(sides.rhs))

\* assertEquals(pipe(fa, this.F.imap(identity, identity)), fa)
InvariantLaws_assertIdentity(m, this, fa) ==
    LET r == imap(m, <<"identity">>, <<"identity">>, fa) IN
    assertEquals(r.m, Ref(r.ret), Ref(fa))

\* lhs is fa.imap(f1, f2).imap(g1, g2), rhs is
\* fa.imap(flow(f1, g1), flow(g2, f2)); each step is printed with toString;
\* then assertEquals(lhs, rhs)
InvariantLaws_assertComposition(m, this, fa, f1, f2, g1, g2) ==
    LET p1 == Option_toString(m, fa)
        fb == imap(p1.m, f1, f2, fa)
        p2 == Option_toString(fb.m, fb.ret)
        lhs == imap(p2.m, g1, g2, fb.ret)
        p3 == Option_toString(lhs.m, lhs.ret)
        p4 == Option_toString(p3.m, fa)
        rhs == imap(p4.m, <<"compose", f1, g1>>, <<"compose", g2, f2>>, fa)
        p5 == Option_toString(rhs.m, rhs.ret)
    IN assertEquals(p5.m, Ref(lhs.ret), Ref(rhs.ret))

\* combine of the semigroup of the natural numbers under addition
combine(self, that) == Num(self.n + that.n)

\* lhs is combine(combine(a, b), c), rhs is combine(a, combine(b, c));
\* then this.#assertEquals(lhs, rhs)
SemigroupLaws_assertAssociativity(m, this, a, b, c) ==
    LET lhs == combine(combine(a, b), c)
        rhs == combine(a, combine(b, c))
    IN CallAssertStrategy(m, this.assertEquals, lhs, rhs)

(***************************************************************************)
(* State.                                                                  *)
(***************************************************************************)
VARIABLES
    heap,         \* the Option objects constructed so far, by reference
    classes,      \* the class each of these objects is an instance of
    instance,     \* None.#instance: 0 while undefined, else a reference
    last,         \* the operation just performed, its arguments and results
    noneResults   \* every reference an empty-Option constructor has returned

vars == <<heap, classes, instance, last, noneResults>>

Refs == 1..Len(heap)

Machine == [heap |-> heap, classes |-> classes, instance |-> instance, calls |-> <<>>,
            pulled |-> 0, threw |-> ""]

NoOp == [op |-> "", f |-> "", g |-> "", self |-> 0, that |-> 0, other |-> 0,
         a |-> Undefined, ret |-> 0, lhs |-> 0, rhs |-> 0, calls |-> <<>>,
         coll |-> <<>>, pulled |-> 0, threw |-> "", out |-> Undefined,
         expected |-> Undefined, links |-> 0]

Init ==
    /\ heap = <<>>
    /\ classes = <<>>
    /\ instance = 0
    /\ last = NoOp
    /\ noneResults = {}

\* the machine after a call becomes the state
Commit(m) ==
    /\ heap' = m.heap
    /\ classes' = m.classes
    /\ instance' = m.instance

CallNone ==
    /\ Len(heap) < MaxHeap
    /\ LET r == None(Machine) IN
        /\ Commit(r.m)
        /\ last' = [NoOp EXCEPT !.op = "None", !.ret = r.ret, !.threw = r.m.threw]
        /\ noneResults' = noneResults \cup {r.ret}

CallOf ==
    /\ Len(heap) < MaxHeap
    /\ \E a \in InputValues :
        LET r == of(Machine, a) IN
        /\ Commit(r.m)
        /\ last' = [NoOp EXCEPT !.op = "of", !.a = a, !.ret = r.ret,
                                !.threw = r.m.threw]
        /\ UNCHANGED noneResults

CallFromNullable ==
    /\ Len(heap) < MaxHeap
    /\ \E a \in InputValues :
        LET r == fromNullable(Machine, a) IN
        /\ Commit(r.m)
        /\ last' = [NoOp EXCEPT !.op = "fromNullable", !.a = a, !.ret = r.ret,
                                !.threw = r.m.threw]
        /\ noneResults' = IF a \in {Null, Undefined}
                          THEN noneResults \cup {r.ret}
                          ELSE noneResults

CallMap ==
    /\ Len(heap) < MaxHeap
    /\ \E self \in Refs : \E f \in MapFns :
        /\ Accepts(f, KindOf(heap, self))
        /\ LET r == map(Machine, <<f>>, self) IN
            /\ Commit(r.m)
            /\ last' = [NoOp EXCEPT !.op = "map", !.f = f, !.self = self,
                                    !.ret = r.ret, !.calls = r.m.calls]
            /\ UNCHANGED noneResults

CallFlatMap ==
    /\ Len(heap) < MaxHeap
    /\ \E self \in Refs : \E f \in FlatMapFns :
        /\ Accepts(f, KindOf(heap, self))
        /\ LET r == flatMap(Machine, <<f>>, self) IN
            /\ Commit(r.m)
            /\ last' = [NoOp EXCEPT !.op = "flatMap", !.f = f, !.self = self,
                                    !.ret = r.ret, !.calls = r.m.calls]
            /\ UNCHANGED noneResults

\* Option.of(x) for an Option x: an Option of an Option
CallNest ==
    /\ Len(heap) < MaxHeap
    /\ \E x \in Refs :
        LET r == of(Machine, Ref(x)) IN
        /\ Commit(r.m)
        /\ last' = [NoOp EXCEPT !.op = "of", !.a = Ref(x), !.ret = r.ret,
                                !.threw = r.m.threw]
        /\ UNCHANGED noneResults

\* flatten constructs nothing, so it can still be called when the heap is full
CallFlatten ==
    \E ffa \in Refs :
        /\ KindOf(heap, ffa) \in {"option", "never"}
        /\ LET r == flatten(Machine, ffa) IN
            /\ Len(r.m.heap) <= MaxHeap
            /\ Commit(r.m)
            /\ last' = [NoOp EXCEPT !.op = "flatten", !.self = ffa, !.ret = r.ret,
                                    !.calls = r.m.calls]
            /\ UNCHANGED noneResults

CallImap ==
    /\ Len(heap) < MaxHeap
    /\ \E self \in Refs : \E to \in MapFns : \E from \in MapFns :
        /\ Accepts(to, KindOf(heap, self))
        /\ Accepts(from, CodOf(to, KindOf(heap, self)))
        /\ LET r == imap(Machine, <<to>>, <<from>>, self) IN
            /\ Commit(r.m)
            /\ last' = [NoOp EXCEPT !.op = "imap", !.f = to, !.g = from,
                                    !.self = self, !.ret = r.ret,
                                    !.calls = r.m.calls]
            /\ UNCHANGED noneResults

\* the collections a caller can build from the Options that exist
Collections == UNION {[1..n -> Refs] : n \in 0..MaxColl}

\* an operation has been called through the method and then through the
\* static function; l and r are what the two calls returned
BothOptions(op, l, r) ==
    /\ Commit(r.m)
    /\ last' = [NoOp EXCEPT !.op = op, !.lhs = l.ret, !.rhs = r.ret,
                            !.calls = r.m.calls]
    /\ UNCHANGED noneResults

BothValues(op, l, r) ==
    /\ Commit(r.m)
    /\ last' = [NoOp EXCEPT !.op = op, !.out = l.ret, !.expected = r.ret,
                            !.calls = r.m.calls]
    /\ UNCHANGED noneResults

BothMap ==
    /\ Len(heap) < MaxHeap
    /\ \E self \in Refs : \E f \in MapFns :
        /\ Accepts(f, KindOf(heap, self))
        /\ LET l == Option_map(Machine, self, <<f>>)
               r == map(l.m, <<f>>, self)
           IN BothOptions("both map", l, r)

BothImap ==
    /\ Len(heap) < MaxHeap
    /\ \E self \in Refs : \E f \in MapFns : \E g \in MapFns :
        /\ Accepts(f, KindOf(heap, self))
        /\ Accepts(g, CodOf(f, KindOf(heap, self)))
        /\ CodOf(g, CodOf(f, KindOf(heap, self))) = KindOf(heap, self)
        /\ LET l == Option_imap(Machine, self, <<f>>, <<g>>)
               r == imap(l.m, <<f>>, <<g>>, self)
           IN BothOptions("both imap", l, r)

BothFlatMap ==
    /\ Len(heap) < MaxHeap
    /\ \E self \in Refs : \E f \in FlatMapFns :
        /\ Accepts(f, KindOf(heap, self))
        /\ LET l == Option_flatMap(Machine, self, <<f>>)
               r == flatMap(l.m, <<f>>, self)
           IN BothOptions("both flatMap", l, r)

BothFlatten ==
    /\ Len(heap) < MaxHeap
    /\ \E self \in Refs :
        /\ KindOf(heap, self) \in {"option", "never"}
        /\ LET l == Option_flatten(Machine, self)
               r == flatten(l.m, self)
           IN BothOptions("both flatten", l, r)

BothFold ==
    /\ Len(heap) < MaxHeap
    /\ \E self \in Refs : \E ifEmpty \in {"fortyTwo"} : \E f \in MapFns :
        /\ Accepts(f, KindOf(heap, self))
        /\ LET l == Option_fold(Machine, self, ifEmpty, f)
               r == fold(l.m, ifEmpty, f, self)
           IN BothValues("both fold", l, r)

BothMatch ==
    /\ Len(heap) < MaxHeap
    /\ \E self \in Refs : \E onNone \in {"null"} : \E onSome \in MapFns :
        /\ Accepts(onSome, KindOf(heap, self))
        /\ LET cases == [onNone |-> onNone, onSome |-> onSome]
               l == Option_match(Machine, self, cases)
               r == match(l.m, cases, self)
           IN BothValues("both match", l, r)

BothReduce ==
    /\ Len(heap) < MaxHeap
    /\ \E self \in Refs : \E f \in ReduceFns : \E b \in {Num(0)} :
        /\ DomOf2(f) \in {"any", KindOf(heap, self)} \/ KindOf(heap, self) = "never"
        /\ LET l == Option_reduce(Machine, self, b, f)
               r == reduce(l.m, b, f, self)
           IN BothValues("both reduce", l, r)

BothProduct ==
    /\ Len(heap) < MaxHeap
    /\ \E self \in Refs : \E that \in Refs :
        LET l == Option_product(Machine, self, that)
            r == product(l.m, self, that)
        IN BothOptions("both product", l, r)

BothProductMany ==
    /\ Len(heap) < MaxHeap
    /\ \E self \in Refs : \E coll \in Collections :
        /\ \A i \in 1..Len(coll) :
            KindOf(heap, coll[i]) \in {KindOf(heap, self), "never"}
        /\ LET l == Option_productMany(Machine, self, coll)
               r == productMany(l.m, self, coll)
           IN BothOptions("both productMany", l, r)

\* one more link of a chain: an operation applied to what the chain has
\* produced so far
Link(m, cur, step) ==
    CASE step.op = "map" -> Option_map(m, cur, <<step.f>>)
      [] step.op = "imap" -> Option_imap(m, cur, <<step.f>>, <<step.g>>)
      [] step.op = "flatMap" -> Option_flatMap(m, cur, <<step.f>>)
      [] step.op = "flatten" -> Option_flatten(m, cur)
      [] step.op = "product" -> Option_product(m, cur, step.that)
      [] step.op = "product of" -> Option_product(m, step.that, cur)
      [] step.op = "productMany" -> Option_productMany(m, cur, step.coll)

Step(op, f, g, that, coll) == [op |-> op, f |-> f, g |-> g, that |-> that, coll |-> coll]

\* the links a caller can add to a chain that holds an Option<never>
Steps ==
    {Step("map", f, "", 0, <<>>) : f \in MapFns}
    \cup {Step("imap", f, g, 0, <<>>) : f \in MapFns, g \in MapFns}
    \cup {Step("flatMap", f, "", 0, <<>>) : f \in FlatMapFns}
    \cup {Step("flatten", "", "", 0, <<>>)}
    \cup {Step("product", "", "", that, <<>>) : that \in Refs}
    \cup {Step("product of", "", "", that, <<>>) : that \in Refs}
    \cup {Step("productMany", "", "", 0, coll) : coll \in Collections}

\* Option.None().map(f).flatMap(g)... : the chain goes on from what the
\* last link returned
ChainStep ==
    /\ Len(heap) < MaxHeap
    /\ last.op \in {"None", "chain"}
    /\ last.links < MaxChain
    /\ \E step \in Steps :
        LET r == Link(Machine, last.ret, step) IN
        /\ Commit(r.m)
        /\ last' = [NoOp EXCEPT !.op = "chain", !.f = step.op, !.self = last.ret,
                                !.ret = r.ret, !.calls = r.m.calls,
                                !.links = last.links + 1]
        /\ UNCHANGED noneResults

\* productMany(self, rest) and then productAll([self, ...rest])
ProductManyAndAll ==
    /\ Len(heap) < MaxHeap
    /\ \E self \in Refs : \E rest \in Collections :
        /\ \A i \in 1..Len(rest) :
            KindOf(heap, rest[i]) \in {KindOf(heap, self), "never"}
        /\ LET l == productMany(Machine, self, rest)
               r == productAll(l.m, <<self>> \o rest)
           IN /\ Commit(r.m)
              /\ last' = [NoOp EXCEPT !.op = "productMany and productAll",
                                      !.self = self, !.coll = rest,
                                      !.lhs = l.ret, !.rhs = r.ret]
              /\ UNCHANGED noneResults

\* any one of the operations of an Option, applied to self
Operate(m, self, step) ==
    CASE step.op = "fold" -> Option_fold(m, self, step.g, step.f)
      [] step.op = "match" ->
            Option_match(m, self, [onNone |-> step.g, onSome |-> step.f])
      [] step.op = "getOrElse" -> getOrElse(m, step.g, self)
      [] step.op = "reduce" -> Option_reduce(m, self, Num(0), step.f)
      [] step.op = "equals" -> Option_equals(m, self, Ref(step.that), step.f)
      [] step.op = "toJSON" -> toJSON(m, self)
      [] step.op = "toString" -> Option_toString(m, self)
      [] step.op = "productAll" -> productAll(m, <<self>> \o step.coll)
      [] OTHER -> Link(m, self, step)

\* what a caller can do with the Option self: every operation, each with a
\* few arguments of the types self allows
Operations(self) ==
    LET kind == KindOf(heap, self)
        fs == {f \in {"double", "constNull"} : Accepts(f, kind)}
        alike == {<<>>} \cup {<<that>> : that \in {r \in Refs : KindOf(heap, r) \in {kind, "never"}}}
    IN {Step("map", f, "", 0, <<>>) : f \in fs}
       \cup {Step("imap", "toString", "toNumber", 0, <<>>) : f \in fs \ {"constNull"}}
       \cup {Step("flatMap", f, "", 0, <<>>) : f \in {"of", "constNone"}}
       \cup {Step("flatten", "", "", 0, <<>>) : k \in {kind} \cap {"option", "never"}}
       \cup {Step("product", "", "", that, <<>>) : that \in Refs}
       \cup {Step(op, "", "", 0, coll) : op \in {"productMany", "productAll"}, coll \in alike}
       \cup {Step(op, f, "fortyTwo", 0, <<>>) : op \in {"fold", "match"}, f \in fs}
       \cup {Step("getOrElse", "", "two", 0, <<>>)}
       \cup {Step("reduce", "latest", "", 0, <<>>)}
       \cup {Step("equals", "undefined", "", that, <<>>) : that \in Refs}
       \cup {Step(op, "", "", 0, <<>>) : op \in {"toJSON", "toString"}}

CallOperation ==
    /\ Len(heap) < MaxHeap
    /\ \E self \in Refs : \E step \in Operations(self) :
        LET r == Operate(Machine, self, step) IN
        /\ Commit(r.m)
        /\ last' = [NoOp EXCEPT !.op = "operation", !.f = step.op,
                                !.threw = r.m.threw]
        /\ UNCHANGED noneResults

CallProduct ==
    /\ Len(heap) < MaxHeap
    /\ \E self \in Refs : \E that \in Refs :
        LET r == product(Machine, self, that) IN
        /\ Commit(r.m)
        /\ last' = [NoOp EXCEPT !.op = "product", !.self = self, !.that = that,
                                !.ret = r.ret]
        /\ UNCHANGED noneResults

\* a law has been run: both sides are kept for the equality strategy
Ran(op, f, g, self, that, other, a, r) ==
    /\ Commit(r.m)
    /\ last' = [NoOp EXCEPT !.op = op, !.f = f, !.g = g, !.self = self,
                            !.that = that, !.other = other, !.a = a,
                            !.lhs = r.lhs, !.rhs = r.rhs, !.calls = r.m.calls]
    /\ UNCHANGED noneResults

FunctorIdentity ==
    /\ Len(heap) < MaxHeap
    /\ \E fa \in Refs :
        Ran("functorIdentity", "", "", fa, 0, 0, Undefined,
            CovariantLaws_assertIdentity(Machine, fa))

FunctorComposition ==
    /\ Len(heap) < MaxHeap
    /\ \E Fa \in Refs : \E f \in MapFns : \E g \in MapFns :
        /\ Accepts(f, KindOf(heap, Fa))
        /\ Accepts(g, CodOf(f, KindOf(heap, Fa)))
        /\ Ran("functorComposition", f, g, Fa, 0, 0, Undefined,
               CovariantLaws_assertComposition(Machine, Fa, <<f>>, <<g>>))

MonadLeftIdentity ==
    /\ Len(heap) < MaxHeap
    /\ \E a \in InputValues : \E f \in FlatMapFns :
        /\ Accepts(f, a.k)
        /\ Ran("leftIdentity", f, "", 0, 0, 0, a, LeftIdentity(Machine, a, <<f>>))

MonadRightIdentity ==
    /\ Len(heap) < MaxHeap
    /\ \E Fa \in Refs :
        Ran("rightIdentity", "", "", Fa, 0, 0, Undefined, RightIdentity(Machine, Fa))

FlatMapAssociativity ==
    /\ Len(heap) < MaxHeap
    /\ \E fa \in Refs : \E f \in FlatMapFns : \E g \in FlatMapFns :
        /\ Accepts(f, KindOf(heap, fa))
        /\ Accepts(g, CodOf(f, KindOf(heap, fa)))
        /\ Ran("flatMapAssociativity", f, g, fa, 0, 0, Undefined,
               FlatMapLaws_assertAssociativity(Machine, fa, <<f>>, <<g>>))

SemiProductAssociativity ==
    /\ Len(heap) < MaxHeap
    /\ \E Fa \in Refs : \E Fb \in Refs : \E Fc \in Refs :
        Ran("semiProductAssociativity", "", "", Fa, Fb, Fc, Undefined,
            SemiProductLaws_assertAssociativity(Machine, Fa, Fb, Fc))

\* a harness has been constructed with the assertion handed over (or none)
\* and one of its law methods has run
Harnessed(op, assertEqualStrategy, r) ==
    /\ Commit(r.m)
    /\ last' = [NoOp EXCEPT !.op = op, !.f = assertEqualStrategy,
                            !.calls = r.m.calls, !.threw = r.m.threw]
    /\ UNCHANGED noneResults

\* the assertions that take two sides of the type of `kind`
AssertStrategiesOf(kind) ==
    IF kind = "option" THEN AssertStrategies ELSE AssertStrategies \ {"optionEqual"}

\* the functions the law tests map with
LawFns == {"identity", "toString", "toNumber"}

InvariantIdentity ==
    /\ Len(heap) < MaxHeap
    /\ \E fa \in Refs : \E assertEqualStrategy \in AssertStrategiesOf("option") :
        Harnessed("InvariantLaws.assertIdentity", assertEqualStrategy,
            InvariantLaws_assertIdentity(Machine,
                InvariantLaws_constructor("Option", assertEqualStrategy), fa))

InvariantComposition ==
    /\ Len(heap) < MaxHeap
    /\ \E fa \in Refs : \E f1 \in LawFns : \E g1 \in LawFns :
       \E f2 \in LawFns : \E g2 \in LawFns :
       \E assertEqualStrategy \in AssertStrategiesOf("option") :
        LET A == KindOf(heap, fa)
            B == CodOf(f1, A)
            C == CodOf(g1, B)
        IN /\ Accepts(f1, A) /\ Accepts(g1, B)
           /\ Accepts(f2, B) /\ CodOf(f2, B) = A
           /\ Accepts(g2, C) /\ CodOf(g2, C) = B
           /\ Harnessed("InvariantLaws.assertComposition", assertEqualStrategy,
                InvariantLaws_assertComposition(Machine,
                    InvariantLaws_constructor("Option", assertEqualStrategy),
                    fa, <<f1>>, <<f2>>, <<g1>>, <<g2>>))

CovariantIdentity ==
    /\ Len(heap) < MaxHeap
    /\ \E fa \in Refs : \E assertEqualStrategy \in AssertStrategiesOf("option") :
        Harnessed("CovariantLaws.assertIdentity", assertEqualStrategy,
            Asserted(CovariantLaws_constructor("Option", assertEqualStrategy),
                     CovariantLaws_assertIdentity(Machine, fa)))

CovariantComposition ==
    /\ Len(heap) < MaxHeap
    /\ \E Fa \in Refs : \E f \in LawFns : \E g \in LawFns :
       \E assertEqualStrategy \in AssertStrategiesOf("option") :
        /\ Accepts(f, KindOf(heap, Fa))
        /\ Accepts(g, CodOf(f, KindOf(heap, Fa)))
        /\ Harnessed("CovariantLaws.assertComposition", assertEqualStrategy,
            Asserted(CovariantLaws_constructor("Option", assertEqualStrategy),
                     CovariantLaws_assertComposition(Machine, Fa, <<f>>, <<g>>)))

FlatMapLawsAssociativity ==
    /\ Len(heap) < MaxHeap
    /\ \E fa \in Refs : \E f \in {"of", "constNone"} : \E g \in {"of", "constNone"} :
       \E assertEqualStrategy \in AssertStrategiesOf("option") :
        /\ Accepts(f, KindOf(heap, fa))
        /\ Accepts(g, CodOf(f, KindOf(heap, fa)))
        /\ Harnessed("FlatMapLaws.assertAssociativity", assertEqualStrategy,
            Asserted(FlatMapLaws_constructor("Option", assertEqualStrategy),
                     FlatMapLaws_assertAssociativity(Machine, fa, <<f>>, <<g>>)))

SemiProductLawsAssociativity ==
    /\ Len(heap) < MaxHeap
    /\ \E Fa \in Refs : \E Fb \in Refs : \E Fc \in Refs :
       \E assertEqualStrategy \in AssertStrategiesOf("option") :
        Harnessed("SemiProductLaws.assertAssociativity", assertEqualStrategy,
            Asserted(SemiProductLaws_constructor("Option", assertEqualStrategy),
                     SemiProductLaws_assertAssociativity(Machine, Fa, Fb, Fc)))

SemigroupAssociativity ==
    /\ Len(heap) < MaxHeap
    /\ \E a \in 0..MaxNum : \E b \in 0..MaxNum : \E c \in 0..MaxNum :
       \E _assertEquals \in AssertStrategiesOf("num") :
        Harnessed("SemigroupLaws.assertAssociativity", _assertEquals,
            SemigroupLaws_assertAssociativity(Machine,
                SemigroupLaws_constructor("Sum", _assertEquals),
                Num(a), Num(b), Num(c)))

CallProductAll ==
    /\ Len(heap) < MaxHeap
    /\ \E coll \in Collections :
        LET r == productAll(Machine, coll) IN
        /\ Commit(r.m)
        /\ last' = [NoOp EXCEPT !.op = "productAll", !.coll = coll, !.ret = r.ret,
                                !.pulled = r.m.pulled, !.threw = r.m.threw]
        /\ UNCHANGED noneResults

CallProductMany ==
    /\ Len(heap) < MaxHeap
    /\ \E self \in Refs : \E coll \in Collections :
        LET r == productMany(Machine, self, coll) IN
        /\ Commit(r.m)
        /\ last' = [NoOp EXCEPT !.op = "productMany", !.self = self, !.coll = coll,
                                !.ret = r.ret, !.pulled = r.m.pulled,
                                !.threw = r.m.threw]
        /\ UNCHANGED noneResults

\* new Option(), past the type checker
CallNewOption ==
    /\ Len(heap) < MaxHeap
    /\ LET m == Option_constructor(Machine, "Option") IN
        /\ instance' = m.instance
        /\ heap' = IF m.threw = ""
                   THEN Append(m.heap, [tag |-> "Option", value |-> Undefined])
                   ELSE m.heap
        /\ classes' = IF m.threw = "" THEN Append(m.classes, "Option") ELSE m.classes
        /\ last' = [NoOp EXCEPT !.op = "new Option", !.threw = m.threw,
                                !.ret = IF m.threw = "" THEN Len(m.heap) + 1 ELSE 0]
        /\ UNCHANGED noneResults

\* fromNullable(x).getOrElse(() => sentinel)
RoundTrip ==
    /\ Len(heap) < MaxHeap
    /\ \E x \in InputValues \cup FalsyValues : \E sentinel \in LazyFns :
        LET r == fromNullable(Machine, x)
            s == getOrElse(r.m, sentinel, r.ret)
        IN /\ Commit(s.m)
           /\ last' = [NoOp EXCEPT !.op = "roundTrip", !.a = x, !.g = sentinel,
                                   !.ret = r.ret, !.out = s.ret,
                                   !.calls = s.m.calls, !.threw = s.m.threw]
           /\ noneResults' = IF x \in {Null, Undefined}
                             THEN noneResults \cup {r.ret}
                             ELSE noneResults

\* the record of an operation that returns a plain value
Eliminated(op, f, g, self, a, r) ==
    /\ Len(heap) < MaxHeap
    /\ Commit(r.m)
    /\ last' = [NoOp EXCEPT !.op = op, !.f = f, !.g = g, !.self = self, !.a = a,
                            !.out = r.ret, !.calls = r.m.calls, !.threw = r.m.threw]
    /\ UNCHANGED noneResults

\* self.isSome()
Option_isSome(m, self) == Result(m, Boolean(isSome(m, self)))

\* self.isNone()
Option_isNone(m, self) == Result(m, Boolean(isNone(m, self)))

\* self.isEmpty()
Option_isEmpty(m, self) == Result(m, Boolean(isEmpty(m, self)))

CallIsSome ==
    \E self \in Refs :
        Eliminated("isSome", "", "", self, Undefined, Option_isSome(Machine, self))

CallIsNone ==
    \E self \in Refs :
        Eliminated("isNone", "", "", self, Undefined, Option_isNone(Machine, self))

CallIsEmpty ==
    \E self \in Refs :
        Eliminated("isEmpty", "", "", self, Undefined, Option_isEmpty(Machine, self))

CallGet ==
    \E self \in Refs :
        Eliminated("get", "", "", self, Undefined, Option_get(Machine, self))

CallToString ==
    \E self \in Refs :
        Eliminated("toString", "", "", self, Undefined, Option_toString(Machine, self))

CallReduce ==
    \E self \in Refs : \E f \in ReduceFns : \E b \in {Num(n) : n \in 0..MaxNum} :
        /\ DomOf2(f) \in {"any", KindOf(heap, self)} \/ KindOf(heap, self) = "never"
        /\ Eliminated("reduce", f, "", self, b, reduce(Machine, b, f, self))

CallGetOrElse ==
    \E self \in Refs : \E defaultValue \in LazyFns :
        Eliminated("getOrElse", "", defaultValue, self, Undefined,
                   getOrElse(Machine, defaultValue, self))

CallFold ==
    \E self \in Refs : \E ifEmpty \in LazyFns : \E f \in MapFns :
        /\ Accepts(f, KindOf(heap, self))
        /\ Eliminated("fold", f, ifEmpty, self, Undefined,
                      fold(Machine, ifEmpty, f, self))

CallMatch ==
    \E self \in Refs : \E onNone \in LazyFns : \E onSome \in MapFns :
        /\ Accepts(onSome, KindOf(heap, self))
        /\ Eliminated("match", onSome, onNone, self, Undefined,
                      match(Machine, [onNone |-> onNone, onSome |-> onSome], self))

\* what a caller may hand to equals: an Option, or something that is not one
Thats == {Ref(r) : r \in Refs} \cup InputValues

CallEquals ==
    \E self \in Refs : \E that \in Thats : \E predicateStrategy \in Strategies :
        Eliminated("equals", predicateStrategy, "", self, that,
                   Option_equals(Machine, self, that, predicateStrategy))

CallToJSON ==
    \E self \in Refs :
        Eliminated("toJSON", "", "", self, Undefined, toJSON(Machine, self))

\* the constructors and the operations, called directly
Next ==
    \/ CallNone
    \/ CallOf
    \/ CallFromNullable
    \/ CallMap
    \/ CallFlatMap
    \/ CallProduct

Spec == Init /\ [][Next]_vars

\* the constructors and the law tests run on the Options they built
NextLaws ==
    \/ CallNone
    \/ CallOf
    \/ CallFromNullable
    \/ FunctorIdentity
    \/ FunctorComposition
    \/ MonadLeftIdentity
    \/ MonadRightIdentity
    \/ FlatMapAssociativity
    \/ SemiProductAssociativity

SpecLaws == Init /\ [][NextLaws]_vars

\* the constructors and the law methods of the five harnesses
NextHarness ==
    \/ CallNone
    \/ CallOf
    \/ InvariantIdentity
    \/ InvariantComposition
    \/ CovariantIdentity
    \/ CovariantComposition
    \/ FlatMapLawsAssociativity
    \/ SemiProductLawsAssociativity
    \/ SemigroupAssociativity

SpecHarness == Init /\ [][NextHarness]_vars

\* the constructors and the products over a collection
NextProduct ==
    \/ CallNone
    \/ CallOf
    \/ CallFromNullable
    \/ CallProductAll
    \/ CallProductMany

SpecProduct == Init /\ [][NextProduct]_vars

\* the constructors, the round trip through fromNullable, and the operations
\* that can throw
NextThrow ==
    \/ CallNone
    \/ CallOf
    \/ CallFromNullable
    \/ CallNewOption
    \/ RoundTrip
    \/ CallGet
    \/ CallToString

SpecThrow == Init /\ [][NextThrow]_vars

\* the constructors and the operations that take caller-supplied functions
\* and return a plain value
NextFold ==
    \/ CallNone
    \/ CallOf
    \/ CallFromNullable
    \/ CallReduce
    \/ CallGetOrElse
    \/ CallFold
    \/ CallMatch

SpecFold == Init /\ [][NextFold]_vars

\* the constructors, the transformations and the guards
NextGuards ==
    \/ CallNone
    \/ CallOf
    \/ CallFromNullable
    \/ CallMap
    \/ CallFlatMap
    \/ CallProduct
    \/ CallIsSome
    \/ CallIsNone
    \/ CallIsEmpty

SpecGuards == Init /\ [][NextGuards]_vars

\* the constructors, Options of Options, and flatten
NextFlatten ==
    \/ CallNone
    \/ CallOf
    \/ CallNest
    \/ CallFlatten

SpecFlatten == Init /\ [][NextFlatten]_vars

\* the constructors and imap
NextImap ==
    \/ CallNone
    \/ CallOf
    \/ CallFromNullable
    \/ CallImap

SpecImap == Init /\ [][NextImap]_vars

\* the constructors and each operation called through both of its surfaces
NextSurfaces ==
    \/ CallNone
    \/ CallOf
    \/ CallNest
    \/ BothMap
    \/ BothImap
    \/ BothFlatMap
    \/ BothFlatten
    \/ BothFold
    \/ BothMatch
    \/ BothReduce
    \/ BothProduct
    \/ BothProductMany

SpecSurfaces == Init /\ [][NextSurfaces]_vars

\* the constructors and the chains that start from None
NextChain ==
    \/ CallNone
    \/ CallOf
    \/ ChainStep

SpecChain == Init /\ [][NextChain]_vars

\* the constructors and the two products over a collection, side by side
NextProductAgree ==
    \/ CallNone
    \/ CallOf
    \/ ProductManyAndAll

SpecProductAgree == Init /\ [][NextProductAgree]_vars

\* the constructors, get, and every operation of an Option
NextOperations ==
    \/ CallNone
    \/ CallOf
    \/ CallNest
    \/ CallGet
    \/ CallOperation

SpecOperations == Init /\ [][NextOperations]_vars

\* the constructors and the comparison
NextEquals ==
    \/ CallNone
    \/ CallOf
    \/ CallEquals

SpecEquals == Init /\ [][NextEquals]_vars

\* the constructors and the serialization
NextJSON ==
    \/ CallNone
    \/ CallOf
    \/ CallFromNullable
    \/ CallToJSON

SpecJSON == Init /\ [][NextJSON]_vars

(***************************************************************************)
(* C1: every call that yields an empty Option (Option.None(),              *)
(* fromNullable(null), fromNullable(undefined)), in any order and any      *)
(* number of times, returns the same object reference.                     *)
(***************************************************************************)
C1_NoneIsSingleton ==
    /\ \A r1 \in noneResults : \A r2 \in noneResults : r1 = r2
    /\ \A r \in noneResults : r \in Refs /\ heap[r].tag = "None"

\* both None() and fromNullable(nullish) have been called, the latest after
\* the singleton already existed
C1_Witness ==
    /\ last.op = "fromNullable"
    /\ last.a = Null
    /\ noneResults # {}
    /\ Len(heap) >= 2
    /\ last.ret = 1
(***************************************************************************)
(* C2: map(f) applied to None returns None without invoking f; applied to  *)
(* Some(a) it invokes f exactly once, on a, and returns a Some whose       *)
(* payload is the value f returned.                                        *)
(***************************************************************************)
C2_Map ==
    last.op = "map" =>
        IF heap[last.self].tag = "None"
        THEN /\ heap[last.ret].tag = "None"
             /\ last.calls = <<>>
        ELSE /\ Len(last.calls) = 1
             /\ last.calls[1][1] = last.f
             /\ last.calls[1][2] = heap[last.self].value
             /\ heap[last.ret] = [tag |-> "Some", value |-> last.calls[1][3]]

\* Some(1).map(n => n * 2) has produced Some(2)
C2_Witness ==
    /\ last.op = "map"
    /\ last.f = "double"
    /\ heap[last.self] = [tag |-> "Some", value |-> Num(1)]
    /\ heap[last.ret] = [tag |-> "Some", value |-> Num(2)]

(***************************************************************************)
(* C3: flatMap(f) applied to None returns None without invoking f; applied *)
(* to Some(a) it calls f once, on a, and returns the very Option f         *)
(* returned (which may be None), with no extra wrapping.                   *)
(***************************************************************************)
C3_FlatMap ==
    last.op = "flatMap" =>
        IF heap[last.self].tag = "None"
        THEN /\ heap[last.ret].tag = "None"
             /\ last.calls = <<>>
        ELSE /\ Len(last.calls) = 1
             /\ last.calls[1][1] = last.f
             /\ last.calls[1][2] = heap[last.self].value
             /\ last.calls[1][3] = Ref(last.ret)

\* Some(0).flatMap(n => n > 0 ? Some(n * 2) : None()) has returned the None
\* that f returned
C3_Witness ==
    /\ last.op = "flatMap"
    /\ last.f = "positive"
    /\ heap[last.self] = [tag |-> "Some", value |-> Num(0)]
    /\ heap[last.ret].tag = "None"
    /\ Len(last.calls) = 1

(***************************************************************************)
(* C4: functor identity: for every Option fa (Some or None),               *)
(* map(identity)(fa) equals fa: the same variant and, for a Some, the same *)
(* payload.                                                                *)
(***************************************************************************)
C4_FunctorIdentity ==
    last.op = "functorIdentity" =>
        /\ equals(heap, last.lhs, last.rhs)
        /\ heap[last.lhs].tag = heap[last.rhs].tag
        /\ heap[last.lhs].tag = "Some" => heap[last.lhs].value = heap[last.rhs].value

\* the law has been run on a Some that of lifted from null
C4_Witness ==
    /\ last.op = "functorIdentity"
    /\ heap[last.rhs] = [tag |-> "Some", value |-> Null]
    /\ last.lhs # last.rhs

(***************************************************************************)
(* C5: functor composition: for every Option fa and all functions f, g,    *)
(* map(g)(map(f)(fa)) equals map(a => g(f(a)))(fa).                        *)
(***************************************************************************)
C5_FunctorComposition ==
    last.op = "functorComposition" => equals(heap, last.lhs, last.rhs)

\* the law has been run on Some(1) with f = String and g = Number
C5_Witness ==
    /\ last.op = "functorComposition"
    /\ last.f = "toString"
    /\ last.g = "toNumber"
    /\ heap[last.self] = [tag |-> "Some", value |-> Num(1)]
    /\ heap[last.lhs] = [tag |-> "Some", value |-> Num(1)]

(***************************************************************************)
(* C6: monad left identity: for every value a and every function f that    *)
(* returns an Option, of(a).flatMap(f) equals f(a).                        *)
(***************************************************************************)
C6_LeftIdentity ==
    last.op = "leftIdentity" => equals(heap, last.lhs, last.rhs)

\* the law has been run with a = 1 and an f that returns a Some
C6_Witness ==
    /\ last.op = "leftIdentity"
    /\ last.f = "someString"
    /\ last.a = Num(1)
    /\ heap[last.lhs] = [tag |-> "Some", value |-> Str(1)]

(***************************************************************************)
(* C7: monad right identity: for every Option fa (Some or None),           *)
(* fa.flatMap(of) equals fa.                                               *)
(***************************************************************************)
C7_RightIdentity ==
    last.op = "rightIdentity" => equals(heap, last.lhs, last.rhs)

\* the law has been run on a Some, for which flatMap(of) builds a new object
C7_Witness ==
    /\ last.op = "rightIdentity"
    /\ heap[last.rhs].tag = "Some"
    /\ last.lhs # last.rhs

(***************************************************************************)
(* C8: flatMap associativity: for every Option fa and all Option-returning *)
(* functions f, g (each of which may return None),                         *)
(* fa.flatMap(f).flatMap(g) equals fa.flatMap(a => f(a).flatMap(g)).       *)
(***************************************************************************)
C8_FlatMapAssociativity ==
    last.op = "flatMapAssociativity" => equals(heap, last.lhs, last.rhs)

\* the law has been run on a Some with an f that returned a Some and a g
\* that returned None
C8_Witness ==
    /\ last.op = "flatMapAssociativity"
    /\ last.f = "positive"
    /\ last.g = "constNone"
    /\ heap[last.self] = [tag |-> "Some", value |-> Num(1)]
    /\ heap[last.lhs].tag = "None"

(***************************************************************************)
(* C9: product(self, that) returns Some([a, b]) when self is Some(a) and   *)
(* that is Some(b), and returns None when either self or that (or both)    *)
(* is None.                                                                *)
(***************************************************************************)
C9_Product ==
    last.op = "product" =>
        IF heap[last.self].tag = "Some" /\ heap[last.that].tag = "Some"
        THEN heap[last.ret] =
                [tag |-> "Some",
                 value |-> Arr(<<heap[last.self].value, heap[last.that].value>>)]
        ELSE heap[last.ret].tag = "None"

\* product of two different Somes has produced the pair, in order
C9_Witness ==
    /\ last.op = "product"
    /\ heap[last.self] = [tag |-> "Some", value |-> Num(0)]
    /\ heap[last.that] = [tag |-> "Some", value |-> Num(1)]
    /\ heap[last.ret].value = Arr(<<Num(0), Num(1)>>)

(***************************************************************************)
(* C10: SemiProduct associativity: for all Options Fa, Fb, Fc (any mix of  *)
(* Some and None), product(Fa, product(Fb, Fc)) reindexed from [a, [b, c]] *)
(* to [a, b, c] equals product(product(Fa, Fb), Fc) reindexed from         *)
(* [[a, b], c] to [a, b, c].                                               *)
(***************************************************************************)
C10_SemiProductAssociativity ==
    last.op = "semiProductAssociativity" =>
        /\ equals(heap, last.lhs, last.rhs)
        /\ (\A r \in {last.self, last.that, last.other} : heap[r].tag = "Some")
            => heap[last.lhs].value = Arr(<<heap[last.self].value,
                                            heap[last.that].value,
                                            heap[last.other].value>>)

\* the law has been run on three Somes, not all with the same payload
C10_Witness ==
    /\ last.op = "semiProductAssociativity"
    /\ heap[last.self] = [tag |-> "Some", value |-> Num(0)]
    /\ heap[last.that] = [tag |-> "Some", value |-> Num(1)]
    /\ heap[last.other] = [tag |-> "Some", value |-> Num(0)]
    /\ heap[last.lhs].tag = "Some"

(***************************************************************************)
(* C11: productAll(collection) and productMany(self, collection)           *)
(* short-circuit: they pull the members of the iterable one at a time, in  *)
(* order, and stop at the first None, so exactly the members up to and     *)
(* including the first None are pulled and none after it; when every       *)
(* member is a Some all are pulled; when productMany's self is None no     *)
(* member is pulled at all.                                                *)
(***************************************************************************)
\* the position of the first None of a collection, or its length if none
PulledUpTo(coll) ==
    IF \E i \in 1..Len(coll) : heap[coll[i]].tag = "None"
    THEN CHOOSE i \in 1..Len(coll) :
            /\ heap[coll[i]].tag = "None"
            /\ \A j \in 1..(i - 1) : heap[coll[j]].tag = "Some"
    ELSE Len(coll)

C11_ShortCircuit ==
    /\ last.op = "productAll" => last.pulled = PulledUpTo(last.coll)
    /\ last.op = "productMany" =>
        last.pulled = IF heap[last.self].tag = "None" THEN 0
                      ELSE PulledUpTo(last.coll)

\* productAll([None, Some]) has stopped after the first member
C11_Witness ==
    /\ last.op = "productAll"
    /\ Len(last.coll) = 2
    /\ heap[last.coll[1]].tag = "None"
    /\ heap[last.coll[2]].tag = "Some"
    /\ last.pulled = 1

(***************************************************************************)
(* C12: when every member is a Some, productAll(collection) returns Some   *)
(* of the array of all payloads in iteration order (Some([]) for an empty  *)
(* collection) and productMany(self, collection) returns                   *)
(* Some([self payload, ...collection payloads]) (Some([a]) for an empty    *)
(* collection); when any member, or self, is None the result is None.      *)
(***************************************************************************)
Payloads(coll) == [i \in 1..Len(coll) |-> heap[coll[i]].value]

AllSome(coll) == \A i \in 1..Len(coll) : heap[coll[i]].tag = "Some"

C12_ProductOfCollection ==
    /\ last.op = "productAll" =>
        IF AllSome(last.coll)
        THEN heap[last.ret] = [tag |-> "Some", value |-> Arr(Payloads(last.coll))]
        ELSE heap[last.ret].tag = "None"
    /\ last.op = "productMany" =>
        IF heap[last.self].tag = "Some" /\ AllSome(last.coll)
        THEN heap[last.ret] =
                [tag |-> "Some",
                 value |-> Arr(<<heap[last.self].value>> \o Payloads(last.coll))]
        ELSE heap[last.ret].tag = "None"

\* productMany(Some(0), [Some(1), Some(0)]) has produced Some([0, 1, 0])
C12_Witness ==
    /\ last.op = "productMany"
    /\ heap[last.ret] = [tag |-> "Some", value |-> Arr(<<Num(0), Num(1), Num(0)>>)]
    /\ Len(last.coll) = 2

(***************************************************************************)
(* C13: reduce(seed, f) on None returns the seed and does not call f; on   *)
(* Some(a) it returns f(seed, a), and f is called exactly once, with the   *)
(* seed and the payload.                                                   *)
(***************************************************************************)
C13_Reduce ==
    last.op = "reduce" =>
        IF heap[last.self].tag = "None"
        THEN last.out = last.a /\ last.calls = <<>>
        ELSE LET a == heap[last.self].value
                 expected == CASE last.f = "lengthPlus" -> lengthPlus(last.a, a)
                               [] last.f = "sum" -> sum(last.a, a)
                               [] last.f = "latest" -> latest(last.a, a)
             IN /\ last.out = expected
                /\ last.calls = <<<<last.f, Arr(<<last.a, a>>), expected>>>>

\* Some(1).reduce(1, (b, a) => b + a) has returned 2 after one call
C13_Witness ==
    /\ last.op = "reduce"
    /\ last.f = "sum"
    /\ heap[last.self] = [tag |-> "Some", value |-> Num(1)]
    /\ last.a = Num(1)
    /\ last.out = Num(2)
    /\ Len(last.calls) = 1

(***************************************************************************)
(* C14: fromNullable(x) is None exactly when x is null or undefined; for   *)
(* every other x, the falsy 0, '', false and 0n included, it is Some(x);   *)
(* and fromNullable(x).getOrElse(() => sentinel) is x when x is neither    *)
(* null nor undefined and the sentinel otherwise.                          *)
(***************************************************************************)
C14_FromNullable ==
    last.op \in {"fromNullable", "roundTrip"} =>
        IF last.a \in {Null, Undefined}
        THEN /\ heap[last.ret].tag = "None"
             /\ last.op = "roundTrip" => last.out = ApplyLazy(Machine, last.g).ret
        ELSE /\ heap[last.ret] = [tag |-> "Some", value |-> last.a]
             /\ last.op = "roundTrip" => last.out = last.a

\* fromNullable('').getOrElse(() => 2) has returned ''
C14_Witness ==
    /\ last.op = "roundTrip"
    /\ last.a = EmptyString
    /\ last.g = "two"
    /\ heap[last.ret] = [tag |-> "Some", value |-> EmptyString]
    /\ last.out = EmptyString

(***************************************************************************)
(* C15: get() on None is the only operation that throws; it throws         *)
(* 'None.get'; get() on Some never throws, and every other operation       *)
(* (among them None, of, fromNullable, getOrElse and toString) returns a   *)
(* value for every Option it is given.                                     *)
(***************************************************************************)
C15_OnlyGetOnNoneThrows ==
    /\ last.op = "get" =>
        last.threw = IF heap[last.self].tag = "None" THEN "None.get" ELSE ""
    /\ last.op \in {"None", "of", "fromNullable", "roundTrip", "toString"} =>
        last.threw = ""

\* Some(0n).toString() has thrown the TypeError of JSON.stringify
C15_Witness ==
    /\ last.op = "toString"
    /\ heap[last.self] = [tag |-> "Some", value |-> BigInt(0)]
    /\ last.threw = BigIntError

(***************************************************************************)
(* C16: constructing the abstract base Option directly always throws       *)
(* 'Option is not meant to be instantiated directly...' and produces no    *)
(* Option value; constructing the derived Some and None never throws it,   *)
(* so every Option that exists is a Some or a None.                        *)
(***************************************************************************)
C16_BaseNotInstantiable ==
    /\ last.op = "new Option" => last.threw = NotInstantiable /\ last.ret = 0
    /\ last.op \in {"None", "of", "fromNullable", "roundTrip"} =>
        last.threw # NotInstantiable
    /\ \A r \in Refs : heap[r].tag \in {"Some", "None"}

\* new Option() has thrown while a Some and the None exist
C16_Witness ==
    /\ last.op = "new Option"
    /\ last.threw = NotInstantiable
    /\ \E r \in Refs : heap[r].tag = "Some"
    /\ \E r \in Refs : heap[r].tag = "None"

(***************************************************************************)
(* C17: getOrElse(fallback) on Some(a) returns a and never evaluates the   *)
(* fallback; on None it evaluates the fallback exactly once and returns    *)
(* what it produced.                                                       *)
(***************************************************************************)
C17_GetOrElse ==
    last.op = "getOrElse" =>
        IF heap[last.self].tag = "Some"
        THEN last.out = heap[last.self].value /\ last.calls = <<>>
        ELSE /\ last.out = ApplyLazy(Machine, last.g).ret
             /\ last.calls = <<<<last.g, Undefined, last.out>>>>

\* Some(null).getOrElse(() => 2) has returned null without a call
C17_Witness ==
    /\ last.op = "getOrElse"
    /\ last.g = "two"
    /\ heap[last.self] = [tag |-> "Some", value |-> Null]
    /\ last.out = Null
    /\ last.calls = <<>>

C19_Equals ==
    last.op = "equals" =>
        LET that == last.a
            bothSome == /\ heap[last.self].tag = "Some"
                        /\ that.k = "option"
                        /\ heap[that.n].tag = "Some"
            bothNone == /\ heap[last.self].tag = "None"
                        /\ that.k = "option"
                        /\ heap[that.n].tag = "None"
            x == heap[last.self].value
            y == heap[that.n].value
            holds == CASE last.f = "undefined" -> x.k = y.k /\ x.n = y.n
                       [] last.f = "equal" -> equal(heap, x, y)
                       [] last.f = "always" -> TRUE
        IN /\ last.out = IF bothNone \/ (bothSome /\ holds) THEN True ELSE False
           /\ Len(last.calls) = IF bothSome THEN 1 ELSE 0
           /\ bothSome => last.calls[1][2] = Arr(<<x, y>>)

\* Some(1).equals(another Some(1)) has been answered true by Object.is
C19_Witness ==
    /\ last.op = "equals"
    /\ last.f = "undefined"
    /\ last.a.k = "option"
    /\ last.a.n # last.self
    /\ heap[last.self] = [tag |-> "Some", value |-> Num(1)]
    /\ last.out = True
    /\ Len(last.calls) = 1

(***************************************************************************)
(* C20: toJSON() returns a record whose _id is 'Option' and whose _tag is  *)
(* the tag of the variant; it has the key value exactly when the Option    *)
(* is a Some, whatever the payload (null and undefined lifted by of        *)
(* included), and value then holds the payload.                            *)
(***************************************************************************)
\* the keys of an object literal
Keys(object) == {object.items[i].items[1].k : i \in 1..Len(object.items)}

\* the value held under a key of an object literal
ValueAt(object, key) ==
    LET i == CHOOSE j \in 1..Len(object.items) : object.items[j].items[1].k = key
    IN object.items[i].items[2]

C20_ToJSON ==
    last.op = "toJSON" =>
        /\ last.out.k = "object"
        /\ Keys(last.out) = {"_id", "_tag"} \cup
                (IF heap[last.self].tag = "Some" THEN {"value"} ELSE {})
        /\ Len(last.out.items) = Cardinality(Keys(last.out))
        /\ ValueAt(last.out, "_id") = Lit("Option")
        /\ ValueAt(last.out, "_tag") = Lit(heap[last.self].tag)
        /\ heap[last.self].tag = "Some" =>
            ValueAt(last.out, "value") = heap[last.self].value

\* Option.of(undefined).toJSON() has the key value, holding undefined
C20_Witness ==
    /\ last.op = "toJSON"
    /\ heap[last.self] = [tag |-> "Some", value |-> Undefined]
    /\ "value" \in Keys(last.out)
    /\ ValueAt(last.out, "value") = Undefined

(***************************************************************************)
(* C22: every Option reachable through the constructors and the            *)
(* operations is exactly one of the two variants: isSome and isNone are    *)
(* never both true and never both false of it, isSome holds exactly when   *)
(* its _tag is 'Some', and isNone, like isEmpty, exactly when its _tag is  *)
(* 'None'.                                                                 *)
(***************************************************************************)
C22_ExactlyOneVariant ==
    /\ \A x \in Refs :
        /\ isSome(Machine, x) # isNone(Machine, x)
        /\ isSome(Machine, x) <=> heap[x].tag = "Some"
        /\ isNone(Machine, x) <=> heap[x].tag = "None"
    /\ last.op = "isSome" => last.out = Boolean(heap[last.self].tag = "Some")
    /\ last.op \in {"isNone", "isEmpty"} =>
        last.out = Boolean(heap[last.self].tag = "None")

\* Option.of(undefined).isEmpty() has answered false
C22_Witness ==
    /\ last.op = "isEmpty"
    /\ heap[last.self] = [tag |-> "Some", value |-> Undefined]
    /\ last.out = False

(***************************************************************************)
(* C26: flatten collapses exactly one level of nesting and is              *)
(* flatMap(identity): Some(Some(a)) flattens to Some(a), Some(None) to     *)
(* None and None to None; what is returned for a Some is the Option it     *)
(* holds, itself.                                                          *)
(***************************************************************************)
C26_Flatten ==
    last.op = "flatten" =>
        /\ IF heap[last.self].tag = "None"
           THEN heap[last.ret].tag = "None"
           ELSE last.ret = heap[last.self].value.n
        /\ LET r == flatMap(Machine, <<"identity">>, last.self) IN
           last.ret = r.ret /\ last.calls = r.m.calls

\* Some(Some(Some(0))) has been flattened to the Some(Some(0)) it holds
C26_Witness ==
    /\ last.op = "flatten"
    /\ heap[last.self].tag = "Some"
    /\ heap[last.ret].tag = "Some"
    /\ heap[last.ret].value.k = "option"
    /\ heap[heap[last.ret].value.n] = [tag |-> "Some", value |-> Num(0)]

(***************************************************************************)
(* C27: the imap derived from map ignores the backward function:           *)
(* imap(to, from)(fa) is what map(to)(fa) is, reached by the same calls,   *)
(* and from is never called.                                               *)
(***************************************************************************)
C27_ImapIgnoresFrom ==
    last.op = "imap" =>
        LET r == map(Machine, <<last.f>>, last.self) IN
        /\ equals(r.m.heap, last.ret, r.ret)
        /\ last.calls = r.m.calls
        /\ last.calls = IF heap[last.self].tag = "None" THEN <<>>
                        ELSE <<<<last.f, heap[last.self].value, heap[last.ret].value>>>>

\* Some(1).imap(String, Number) is Some('1') after the one call of String
C27_Witness ==
    /\ last.op = "imap"
    /\ last.f = "toString"
    /\ last.g = "toNumber"
    /\ heap[last.self] = [tag |-> "Some", value |-> Num(1)]
    /\ heap[last.ret] = [tag |-> "Some", value |-> Str(1)]
    /\ Len(last.calls) = 1

(***************************************************************************)
(* C23: the fluent and the pipeable surface agree: x.map(f), x.imap(f, g), *)
(* x.flatMap(f), x.flatten(), x.fold(e, f), x.match(cases),                *)
(* x.reduce(b, f), x.product(that) and x.productMany(coll) return what     *)
(* the static function of the same name returns for the same arguments,    *)
(* after the same calls of the functions handed in.                        *)
(***************************************************************************)
\* the log of two runs that made the same calls
SameCallsTwice(calls) ==
    /\ Len(calls) % 2 = 0
    /\ LET half == Len(calls) \div 2 IN
       \A i \in 1..half :
            /\ calls[i][1] = calls[half + i][1]
            /\ calls[i][2] = calls[half + i][2]
            /\ IF calls[i][3].k = "option"
               THEN /\ calls[half + i][3].k = "option"
                    /\ equals(heap, calls[i][3].n, calls[half + i][3].n)
               ELSE calls[i][3] = calls[half + i][3]

C23_FluentIsPipeable ==
    /\ last.op \in {"both map", "both imap", "both flatMap", "both flatten",
                    "both product", "both productMany"} =>
        /\ equals(heap, last.lhs, last.rhs)
        /\ SameCallsTwice(last.calls)
    /\ last.op \in {"both fold", "both match", "both reduce"} =>
        /\ last.out = last.expected
        /\ SameCallsTwice(last.calls)

\* Some(0).product(Some(1)) and Option.product(Some(0), Some(1)) are both Some([0, 1])
C23_Witness ==
    /\ last.op = "both product"
    /\ last.lhs # last.rhs
    /\ heap[last.lhs] = [tag |-> "Some", value |-> Arr(<<Num(0), Num(1)>>)]
    /\ heap[last.rhs] = [tag |-> "Some", value |-> Arr(<<Num(0), Num(1)>>)]

(***************************************************************************)
(* C24: None is absorbing: starting from None, every chain of map, imap,   *)
(* flatMap, flatten, product (with the None on either side) and            *)
(* productMany (with the None as self), whatever the arguments, yields     *)
(* None again at every link, and that None is the one singleton; no        *)
(* function handed in is ever called.                                      *)
(***************************************************************************)
C24_NoneIsAbsorbing ==
    last.op = "chain" =>
        /\ heap[last.ret].tag = "None"
        /\ last.ret = instance
        /\ last.ret = last.self
        /\ last.calls = <<>>

\* a chain of several links from None has ended in a product with a Some
C24_Witness ==
    /\ last.op = "chain"
    /\ last.links > 1
    /\ last.f = "product of"
    /\ \E r \in Refs : heap[r].tag = "Some"
    /\ last.ret = instance

(***************************************************************************)
(* C25: the None.#instance cache is unset until the first operation that   *)
(* needs a None, is set by that first access, and is never reassigned or   *)
(* cleared afterwards; at most one None is ever constructed, and the cache *)
(* holds it.                                                               *)
(***************************************************************************)
\* the None objects constructed so far
Nones == {r \in Refs : classes[r] = "None"}

C25_CacheSetOnce ==
    /\ [](/\ Cardinality(Nones) <= 1
          /\ instance = 0 <=> Nones = {}
          /\ instance # 0 => Nones = {instance})
    /\ [][/\ instance # 0 => instance' = instance
          /\ instance = 0 /\ instance' # 0 => instance' = Len(heap) + 1]_vars

\* None() has been answered from the cache, filled before a Some was constructed
C25_Witness ==
    /\ last.op = "None"
    /\ last.ret = instance
    /\ instance < Len(heap)
    /\ heap[Len(heap)].tag = "Some"

(***************************************************************************)
(* C29: map never changes the variant: map(f)(fa) is a Some exactly when   *)
(* fa is a Some, whatever f returns; in particular, when f returns null    *)
(* or undefined the result is a Some holding that null or undefined, not   *)
(* None, because of wraps every value.                                     *)
(***************************************************************************)
C29_MapKeepsVariant ==
    last.op = "map" =>
        /\ heap[last.ret].tag = heap[last.self].tag
        /\ \A i \in 1..Len(last.calls) :
            last.calls[i][3] \in {Null, Undefined} =>
                heap[last.ret] = [tag |-> "Some", value |-> last.calls[i][3]]

\* Some(1).map(() => null) has produced Some(null)
C29_Witness ==
    /\ last.op = "map"
    /\ last.f = "constNull"
    /\ heap[last.self] = [tag |-> "Some", value |-> Num(1)]
    /\ heap[last.ret] = [tag |-> "Some", value |-> Null]

(***************************************************************************)
(* C30: productMany is consistent with productAll: productMany(self, rest) *)
(* equals productAll([self, ...rest]): the same variant and, when Some,    *)
(* the same payloads in the same order.                                    *)
(***************************************************************************)
C30_ProductManyIsProductAll ==
    last.op = "productMany and productAll" =>
        /\ heap[last.lhs].tag = heap[last.rhs].tag
        /\ heap[last.lhs].value = heap[last.rhs].value

\* productMany(Some(0), [Some(1)]) and productAll([Some(0), Some(1)]) are both Some([0, 1])
C30_Witness ==
    /\ last.op = "productMany and productAll"
    /\ Len(last.coll) = 1
    /\ last.lhs # last.rhs
    /\ heap[last.lhs] = [tag |-> "Some", value |-> Arr(<<Num(0), Num(1)>>)]
    /\ heap[last.rhs] = [tag |-> "Some", value |-> Arr(<<Num(0), Num(1)>>)]

(***************************************************************************)
(* C21: Option values are immutable: get() on a Some returns exactly the   *)
(* value passed at construction, on every call, and no operation (map,     *)
(* imap, flatMap, flatten, fold, match, getOrElse, product, productMany,   *)
(* productAll, reduce, equals, toJSON, toString) changes the tag or the    *)
(* payload of any Option that exists.                                      *)
(***************************************************************************)
C21_Immutable ==
    /\ [](/\ last.op = "of" => heap[last.ret] = [tag |-> "Some", value |-> last.a]
          /\ last.op = "get" /\ heap[last.self].tag = "Some" =>
                last.out = heap[last.self].value)
    /\ [][\A x \in Refs :
            /\ x <= Len(heap')
            /\ heap'[x] = heap[x]
            /\ classes'[x] = classes[x]]_vars

\* map has been applied while a Some(1) and the Some holding it exist
C21_Witness ==
    /\ last.op = "operation"
    /\ last.f = "map"
    /\ Len(heap) = 3
    /\ heap[1] = [tag |-> "Some", value |-> Num(1)]
    /\ heap[2] = [tag |-> "Some", value |-> Ref(1)]
    /\ heap[3] = [tag |-> "Some", value |-> Num(2)]

(***************************************************************************)
(* C28: each of the five law harnesses (Invariant, Covariant, FlatMap,     *)
(* SemiProduct, Semigroup) is constructed with a typeclass instance and an *)
(* equality assertion that defaults to the structural assertEquals, and    *)
(* every law method compares the two sides of its equation by calling the  *)
(* assertion the harness was constructed with.                             *)
(***************************************************************************)
HarnessLaws ==
    {"InvariantLaws.assertIdentity", "InvariantLaws.assertComposition",
     "CovariantLaws.assertIdentity", "CovariantLaws.assertComposition",
     "FlatMapLaws.assertAssociativity", "SemiProductLaws.assertAssociativity",
     "SemigroupLaws.assertAssociativity"}

C28_LawsCallTheSuppliedStrategy ==
    last.op \in HarnessLaws =>
        /\ last.calls # <<>>
        /\ last.calls[Len(last.calls)][1] = DefaultAssert(last.f)

\* a harness of Invariant was handed Util.optionEqual and its identity law
\* has compared pipe(Some(1), imap(identity, identity)) with Some(1)
C28_Witness ==
    /\ last.op = "InvariantLaws.assertIdentity"
    /\ last.f = "optionEqual"
    /\ last.threw = ""
    /\ last.calls = <<<<"identity", Num(1), Num(1)>>,
                      <<"assertEquals", Arr(<<Ref(2), Ref(1)>>), Undefined>>>>

\* the four harnesses that keep the assertion they were constructed with
C28_FourHarnessesCallTheSuppliedStrategy ==
    last.op \in HarnessLaws /\ last.op \notin {"InvariantLaws.assertIdentity",
                                               "InvariantLaws.assertComposition"} =>
        /\ last.calls # <<>>
        /\ last.calls[Len(last.calls)][1] = DefaultAssert(last.f)
====
